---- MODULE Spec2Model ----
(***************************************************************************)
(* click-to-go (src/src/extension.ts): a definition provider that          *)
(* redirects stub (.pyi) locations through a "# path.py:line" comment, a    *)
(* document-link provider for "path.py:line" text, and the jump command.   *)
(*                                                                         *)
(* Text is a sequence of one-character strings.  Offsets (match.index,     *)
(* lastIndex) are 0-based as in JavaScript; sequence indices are 1-based.  *)
(* Paths follow the POSIX flavour of node's path module.                   *)
(***************************************************************************)
EXTENDS Integers, Sequences, FiniteSets, TLC

\* ------------------------------------------------------------------ bounds
MaxCalls  == 2   \* independent provideDefinition requests issued by the host
MaxDepth  == 2   \* nesting depth of provider calls the pipeline may reach
MaxLocs   == 2   \* locations in one upstream answer
MaxChunks == 3   \* chunks concatenated into a document text
MaxJumps  == 1   \* link activations

\* ------------------------------------------------------- character classes
Digits == {"0", "1", "2", "3", "4", "5", "6", "7", "8", "9"}

Letters ==
  {"a", "b", "c", "d", "e", "f", "g", "h", "i", "j", "k", "l", "m",
   "n", "o", "p", "q", "r", "s", "t", "u", "v", "w", "x", "y", "z"}

\* \d
IsDigit(c) == c \in Digits

\* \w
IsWordChar(c) == c \in Letters \cup Digits \cup {"_"}

\* \s
IsSpace(c) == c \in {" ", "\t", "\n"}

\* Variant of IsPathChar: the class also holds the backslash
IsPathCharBackslash(c) == IsWordChar(c) \/ c \in {"-", "/", ".", "\\"}

\* the character class [\w\-\/.] of both patterns
IsPathChar(c) == IsWordChar(c) \/ c \in {"-", "/", "."}

\* --------------------------------------------------------- sequence helpers
SetMax(S) == CHOOSE x \in S : \A y \in S : y <= x

SetMin(S) == CHOOSE x \in S : \A y \in S : x <= y

\* s[a..b] with 1-based inclusive bounds; empty when a > b
Slice(s, a, b) == [k \in 1..(b - a + 1) |-> s[a + k - 1]]

StartsWith(s, p) == Len(p) <= Len(s) /\ Slice(s, 1, Len(p)) = p

EndsWith(s, p) ==
  Len(p) <= Len(s) /\ Slice(s, Len(s) - Len(p) + 1, Len(s)) = p

RECURSIVE Flatten(_)
Flatten(ss) == IF ss = <<>> THEN <<>> ELSE Head(ss) \o Flatten(Tail(ss))

\* ------------------------------------------------------------ parseInt(s,10)
DigitVal(c) ==
  CASE c = "0" -> 0 [] c = "1" -> 1 [] c = "2" -> 2 [] c = "3" -> 3
    [] c = "4" -> 4 [] c = "5" -> 5 [] c = "6" -> 6 [] c = "7" -> 7
    [] c = "8" -> 8 [] c = "9" -> 9

RECURSIVE ParseInt(_)
ParseInt(ds) ==
  IF ds = <<>> THEN 0
  ELSE 10 * ParseInt(Slice(ds, 1, Len(ds) - 1)) + DigitVal(ds[Len(ds)])

\* ------------------------------------------------------------------ regexes
NoMatch == [found |-> FALSE, index |-> 0, end |-> 0, path |-> <<>>, digits |-> <<>>]

\* ([\w\-\/.]+\.py):(\d+) anchored at 1-based position i.  Group 1 is a
\* greedy run of path characters that backtracks to the last ".py" after
\* which ":" and a digit follow; group 2 is the greedy run of digits.
MatchRefAt(str, i) ==
  LET n  == Len(str)
      Ks == {k \in (i + 1)..(n - 4) :
               /\ \A m \in i..(k - 1) : IsPathChar(str[m])
               /\ str[k] = "." /\ str[k + 1] = "p" /\ str[k + 2] = "y"
               /\ str[k + 3] = ":"
               /\ IsDigit(str[k + 4])}
  IN IF i < 1 \/ Ks = {} THEN NoMatch
     ELSE LET k  == SetMax(Ks)
              Es == {e \in (k + 4)..n : \A m \in (k + 4)..e : IsDigit(str[m])}
              e  == SetMax(Es)
          IN [found  |-> TRUE,
              index  |-> i - 1,
              end    |-> e,
              path   |-> Slice(str, i, k + 2),
              digits |-> Slice(str, k + 4, e)]

\* regex.exec(text) of the global pattern with lastIndex = from (0-based):
\* the leftmost position at or after lastIndex where the pattern matches.
ExecRef(str, from) ==
  LET Is == {i \in (from + 1)..Len(str) : MatchRefAt(str, i).found}
  IN IF Is = {} THEN NoMatch ELSE MatchRefAt(str, SetMin(Is))

\* #\s*([\w\-\/.]+\.py):(\d+) anchored at 1-based position h: "#", a greedy
\* run of whitespace that backtracks until the rest matches, then the groups.
MatchCommentAt(str, h) ==
  LET n  == Len(str)
      Ss == {s \in (h + 1)..n :
               /\ \A m \in (h + 1)..(s - 1) : IsSpace(str[m])
               /\ MatchRefAt(str, s).found}
  IN IF h < 1 \/ h > n THEN NoMatch
     ELSE IF str[h] # "#" \/ Ss = {} THEN NoMatch
     ELSE [MatchRefAt(str, SetMax(Ss)) EXCEPT !.index = h - 1]

\* regex.exec(lineText) of the non-global redirect pattern
ExecComment(str) ==
  LET Hs == {h \in 1..Len(str) : MatchCommentAt(str, h).found}
  IN IF Hs = {} THEN NoMatch ELSE MatchCommentAt(str, SetMin(Hs))

\* ---------------------------------------------------------------- path.join
RECURSIVE SplitSlash(_, _, _)
\* segments of p between "/" characters (empty segments included)
SplitSlash(p, cur, acc) ==
  IF p = <<>> THEN Append(acc, cur)
  ELSE IF Head(p) = "/" THEN SplitSlash(Tail(p), <<>>, Append(acc, cur))
  ELSE SplitSlash(Tail(p), Append(cur, Head(p)), acc)

RECURSIVE ResolveSegs(_, _, _)
\* drop "" and ".", let ".." remove the segment before it
ResolveSegs(segs, out, abs) ==
  IF segs = <<>> THEN out
  ELSE LET s == Head(segs) IN
       IF s = <<>> \/ s = <<".">> THEN ResolveSegs(Tail(segs), out, abs)
       ELSE IF s = <<".", ".">> THEN
         IF out # <<>> /\ out[Len(out)] # <<".", ".">>
           THEN ResolveSegs(Tail(segs), Slice(out, 1, Len(out) - 1), abs)
         ELSE IF abs THEN ResolveSegs(Tail(segs), out, abs)
         ELSE ResolveSegs(Tail(segs), Append(out, s), abs)
       ELSE ResolveSegs(Tail(segs), Append(out, s), abs)

RECURSIVE JoinSlash(_)
JoinSlash(segs) ==
  IF segs = <<>> THEN <<>>
  ELSE IF Len(segs) = 1 THEN Head(segs)
  ELSE Head(segs) \o <<"/">> \o JoinSlash(Tail(segs))

\* path.normalize for paths that do not end in "/"
Normalize(p) ==
  LET abs  == p # <<>> /\ p[1] = "/"
      body == JoinSlash(ResolveSegs(SplitSlash(p, <<>>, <<>>), <<>>, abs))
  IN IF abs THEN <<"/">> \o body
     ELSE IF body = <<>> THEN <<".">> ELSE body

\* Variant of PathJoin: plain concatenation, no separator
PathJoinConcat(base, rel) == base \o rel

\* path.join(base, rel)
PathJoin(base, rel) == Normalize(base \o <<"/">> \o rel)

\* ------------------------------------------------------ the host's file system
\* Inputs of the model: the workspace folder and the files an upstream
\* provider may point into.  A file is [path, opens, lines].
WorkspaceRoot == <<"/", "p", "r", "o", "j">>

PyiSuffix == <<".", "p", "y", "i">>

\* "# a/b.py:42"
LineRedirect == <<"#", " ", "a", "/", "b", ".", "p", "y", ":", "4", "2">>

\* "x: int"
LinePlain == <<"x", ":", " ", "i", "n", "t">>

\* "#c.py:0"
LineZero == <<"#", "c", ".", "p", "y", ":", "0">>

\* "# a\b.py:3"
LineBackslash == <<"#", " ", "a", "\\", "b", ".", "p", "y", ":", "3">>

\* "def f(): #  ../d.py:007"
LineTrailing ==
  <<"d", "e", "f", " ", "f", "(", ")", ":", " ", "#", " ", " ",
    ".", ".", "/", "d", ".", "p", "y", ":", "0", "0", "7">>

\* /proj/m.pyi: a stub inside the workspace
FileM ==
  [path  |-> WorkspaceRoot \o <<"/", "m">> \o PyiSuffix,
   opens |-> TRUE,
   lines |-> <<LineRedirect, LinePlain, LineZero, LineBackslash, LineTrailing>>]

\* /lib/n.pyi: a stub outside every workspace folder
FileN ==
  [path  |-> <<"/", "l", "i", "b", "/", "n">> \o PyiSuffix,
   opens |-> TRUE,
   lines |-> <<LineRedirect>>]

\* /proj/g.pyi: a stub that cannot be opened
FileG ==
  [path  |-> WorkspaceRoot \o <<"/", "g">> \o PyiSuffix,
   opens |-> FALSE,
   lines |-> <<>>]

\* /proj/r.py: not a stub, though its line carries a redirect comment
FileR ==
  [path  |-> WorkspaceRoot \o <<"/", "r", ".", "p", "y">>,
   opens |-> TRUE,
   lines |-> <<LineRedirect>>]

Files == {FileM, FileN, FileG, FileR}

FileAt(p) == CHOOSE f \in Files : f.path = p

\* vscode.Location values an upstream provider may return: [path, line]
\* with a 0-based line; line 5 of /proj/m.pyi is past its end.
UpstreamLocations ==
  {[path |-> FileM.path, line |-> l] : l \in 0..5}
    \cup {[path |-> f.path, line |-> 0] : f \in {FileN, FileG, FileR}}

\* What 'vscode.executeDefinitionProvider' may answer: an array of
\* locations, nothing, a value that is no array, or a rejection.
UpstreamAnswers ==
  {[kind |-> "array", locs |-> ls] :
     ls \in UNION {[1..n -> UpstreamLocations] : n \in 0..MaxLocs}}
    \cup {[kind |-> k, locs |-> <<>>] : k \in {"absent", "notArray", "throws"}}

\* vscode.workspace.getWorkspaceFolder(uri): the folder containing the path
GetWorkspaceFolder(p) ==
  IF StartsWith(p, WorkspaceRoot \o <<"/">>)
    THEN [found |-> TRUE, fsPath |-> WorkspaceRoot]
    ELSE [found |-> FALSE, fsPath |-> <<>>]

\* ------------------------------------------------------ resolveRealLocation
NoLocation ==
  [threw |-> FALSE, found |-> FALSE, path |-> <<>>, line |-> 0, character |-> 0]

ThrowsInside == [NoLocation EXCEPT !.threw = TRUE]

\* new vscode.Position(line, character) throws on a negative line
PositionThrows(line) == line < 0

\* Variant of TargetLine: the line number is used as it was read
TargetLineSame(lineNumber) == lineNumber

\* lines 24 and 97: the 0-based line for a captured 1-based line number
TargetLine(lineNumber) == lineNumber - 1

\* lines 79-100, the try block of resolveRealLocation: the open rejecting,
\* lineAt past the end of the document and Position on a negative line throw.
ResolveTry(location) ==
  LET f == FileAt(location.path) IN
  IF ~f.opens THEN ThrowsInside
  ELSE IF location.line + 1 > Len(f.lines) THEN ThrowsInside
  ELSE LET lineText == f.lines[location.line + 1]
           match    == ExecComment(lineText)
       IN IF ~match.found THEN NoLocation
          ELSE LET relativePath    == match.path
                   lineNumber      == ParseInt(match.digits)
                   workspaceFolder == GetWorkspaceFolder(location.path)
               IN IF ~workspaceFolder.found THEN NoLocation
                  ELSE IF PositionThrows(TargetLine(lineNumber)) THEN ThrowsInside
                  ELSE [threw     |-> FALSE,
                        found     |-> TRUE,
                        path      |-> PathJoin(workspaceFolder.fsPath, relativePath),
                        line      |-> TargetLine(lineNumber),
                        character |-> 0]

\* Variant of ResolveRealLocation: no catch block
ResolveRealLocationNoCatch(location) == ResolveTry(location)

\* resolveRealLocation(location): the catch block logs and falls through to
\* "return undefined".
ResolveRealLocation(location) ==
  LET r == ResolveTry(location) IN IF r.threw THEN NoLocation ELSE r

\* resolveRealLocation on each location the upstream may report: the file
\* system does not change, so the outcome depends on the location alone
ResolvedPairs ==
  {<<location, ResolveRealLocation(location)>> : location \in UpstreamLocations}

Resolved(location) == (CHOOSE p \in ResolvedPairs : p[1] = location)[2]

\* Variant of IsStub: every location is inspected
IsStubAlways(loc) == TRUE

\* loc.uri.fsPath.endsWith('.pyi')
IsStub(loc) == EndsWith(loc.path, PyiSuffix)

\* ------------------------------------------------------------------- state
VARIABLES
  upstream,    \* what the upstream pipeline answers for the queried position
  isFetching,  \* SmartRedirectDefinitionProvider.isFetching
  calls,       \* provideDefinition invocations, in order of invocation
  document,    \* path of the document handed to the link provider
  text,        \* its text
  links,       \* the DocumentLink[] last returned for it
  scanned,     \* whether provideDocumentLinks has run
  jumps,       \* invocations of the command clicktogo.jump
  messages,    \* paths named by showErrorMessage, in order
  selection    \* active editor selection: [path, line, character]

vars ==
  <<upstream, isFetching, calls, document, text, links, scanned, jumps,
    messages, selection>>

defVars == <<upstream, isFetching, calls>>

linkVars == <<document, text, links, scanned, jumps, messages, selection>>

\* ------------------------------------------------------- provideDefinition
\* Return values (and the pending promise) of provideDefinition
Pending == [kind |-> "pending", locs |-> <<>>]

Undefined == [kind |-> "undefined", locs |-> <<>>]

Thrown == [kind |-> "throws", locs |-> <<>>]

Returned(locs) == [kind |-> "list", locs |-> locs]

\* Variant of GuardRejects: the guard is missing
GuardRejectsNever(flag) == FALSE

\* line 44: if (this.isFetching) { return undefined; }
GuardRejects(flag) == flag

\* line 47: this.isFetching = true
FlagOnEntry(flag) == TRUE

\* Variant of FlagOnExit: the flag is not reset on the way out
FlagOnExitKept(flag) == flag

\* lines 72-74: finally { this.isFetching = false; }
FlagOnExit(flag) == FALSE

\* A call is [parent, pc, forwarded, results, i, newLocations, ret]:
\* parent is the call whose forwarded lookup invoked it (0: the host's own
\* request), pc the await it is suspended at, i the 1-based loop index.
NewCall(parent, pc, forwarded, ret) ==
  [parent |-> parent, pc |-> pc, forwarded |-> forwarded, results |-> <<>>,
   i |-> 0, newLocations |-> <<>>, ret |-> ret]

\* lines 42-54: the synchronous part of a call, up to the first await
ProvideDefinition(parent) ==
  IF GuardRejects(isFetching)
    THEN /\ calls' = Append(calls, NewCall(parent, "done", FALSE, Undefined))
         /\ UNCHANGED isFetching
    ELSE /\ isFetching' = FlagOnEntry(isFetching)
         /\ calls' = Append(calls, NewCall(parent, "awaitUpstream", TRUE, Pending))

RECURSIVE Depth(_)
Depth(c) == IF calls[c].parent = 0 THEN 1 ELSE 1 + Depth(calls[c].parent)

Children(c) == {d \in 1..Len(calls) : calls[d].parent = c}

\* The host asks for a definition in the document.
HostInvoke ==
  /\ Cardinality({c \in 1..Len(calls) : calls[c].parent = 0}) < MaxCalls
  /\ ProvideDefinition(0)
  /\ UNCHANGED <<upstream, linkVars>>

\* 'vscode.executeDefinitionProvider' forwarded by call c runs every
\* registered provider for the document, this provider included.
PipelineInvoke(c) ==
  /\ calls[c].pc = "awaitUpstream"
  /\ Children(c) = {}
  /\ Depth(c) < MaxDepth
  /\ ProvideDefinition(c)
  /\ UNCHANGED <<upstream, linkVars>>

\* lines 61-71 from loop index i on: run to the next await (the open made by
\* resolveRealLocation for the next stub) or to the return and the finally.
ContinueLoop(c, results, i, newLocations) ==
  LET Stubs == {k \in i..Len(results) : IsStub(results[k])} IN
  IF Stubs # {}
    THEN /\ calls' = [calls EXCEPT ![c].pc = "awaitOpen",
                                   ![c].results = results,
                                   ![c].i = SetMin(Stubs),
                                   ![c].newLocations = newLocations]
         /\ UNCHANGED isFetching
    ELSE /\ calls' = [calls EXCEPT ![c].pc = "done",
                                   ![c].results = results,
                                   ![c].i = Len(results) + 1,
                                   ![c].newLocations = newLocations,
                                   ![c].ret = Returned(newLocations)]
         /\ isFetching' = FlagOnExit(isFetching)

\* lines 50-56 and 72-74: the forwarded lookup settles once the nested
\* provider call it made has returned.
UpstreamSettles(c) ==
  /\ calls[c].pc = "awaitUpstream"
  /\ \E d \in Children(c) : calls[d].pc = "done"
  /\ \A d \in Children(c) : calls[d].pc = "done"
  /\ CASE upstream.kind = "throws" ->
            /\ calls' = [calls EXCEPT ![c].pc = "done", ![c].ret = Thrown]
            /\ isFetching' = FlagOnExit(isFetching)
       [] upstream.kind \in {"absent", "notArray"} ->
            /\ calls' = [calls EXCEPT ![c].pc = "done", ![c].ret = Undefined]
            /\ isFetching' = FlagOnExit(isFetching)
       [] OTHER -> ContinueLoop(c, upstream.locs, 1, <<>>)
  /\ UNCHANGED <<upstream, linkVars>>

\* lines 64-67: the open awaited inside resolveRealLocation settles
OpenSettles(c) ==
  /\ calls[c].pc = "awaitOpen"
  /\ LET realLocation == Resolved(calls[c].results[calls[c].i])
         pushed == IF realLocation.found
                     THEN Append(calls[c].newLocations, realLocation)
                     ELSE calls[c].newLocations
     IN IF realLocation.threw
          THEN \* a rejection of the awaited call leaves through the finally
               /\ calls' = [calls EXCEPT ![c].pc = "done", ![c].ret = Thrown]
               /\ isFetching' = FlagOnExit(isFetching)
          ELSE ContinueLoop(c, calls[c].results, calls[c].i + 1, pushed)
  /\ UNCHANGED <<upstream, linkVars>>

\* ---------------------------------------------- command URI of a document link
\* JSON.stringify of a number
RECURSIVE ToDigits(_)
ToDigits(n) ==
  LET d == CHOOSE c \in Digits : DigitVal(c) = n % 10 IN
  IF n < 10 THEN <<d>> ELSE Append(ToDigits(n \div 10), d)

RECURSIVE JsonEscape(_)
\* JSON.stringify of the characters of a string
JsonEscape(str) ==
  IF str = <<>> THEN <<>>
  ELSE LET c == Head(str) IN
       (CASE c = "\"" -> <<"\\", "\"">>
          [] c = "\\" -> <<"\\", "\\">>
          [] c = "\n" -> <<"\\", "n">>
          [] OTHER    -> <<c>>) \o JsonEscape(Tail(str))

\* line 130: JSON.stringify([absolutePath, lineNumber])
JsonStringify(absolutePath, lineNumber) ==
  <<"[", "\"">> \o JsonEscape(absolutePath) \o <<"\"", ",">>
    \o ToDigits(lineNumber) \o <<"]">>

\* Characters encodeURIComponent leaves alone
IsUnreserved(c) ==
  c \in Letters \cup Digits \cup {"-", "_", ".", "!", "~", "*", "'", "(", ")"}

\* UTF-8 code of the other characters that occur, as two hex digits
HexCodes ==
  {<<"[", "5", "B">>, <<"]", "5", "D">>, <<"\"", "2", "2">>,
   <<",", "2", "C">>, <<"/", "2", "F">>, <<"\\", "5", "C">>,
   <<":", "3", "A">>, <<" ", "2", "0">>, <<"#", "2", "3">>}

RECURSIVE EncodeURIComponent(_)
\* line 130: encodeURIComponent(...)
EncodeURIComponent(str) ==
  IF str = <<>> THEN <<>>
  ELSE LET c == Head(str) IN
       (IF IsUnreserved(c) THEN <<c>>
        ELSE LET h == CHOOSE t \in HexCodes : t[1] = c
             IN <<"%", h[2], h[3]>>) \o EncodeURIComponent(Tail(str))

\* lines 130-132: the query of the command URI of a link
LinkTarget(absolutePath, lineNumber) ==
  EncodeURIComponent(JsonStringify(absolutePath, lineNumber))

RECURSIVE DecodeURIComponent(_)
\* The host decodes the query of a command URI ...
DecodeURIComponent(str) ==
  IF str = <<>> THEN <<>>
  ELSE IF Head(str) = "%"
    THEN LET h == CHOOSE t \in HexCodes : t[2] = str[2] /\ t[3] = str[3]
         IN <<h[1]>> \o DecodeURIComponent(Slice(str, 4, Len(str)))
    ELSE <<Head(str)>> \o DecodeURIComponent(Tail(str))

RECURSIVE JsonUnescape(_)
JsonUnescape(str) ==
  IF str = <<>> THEN <<>>
  ELSE IF Head(str) = "\\"
    THEN <<(IF str[2] = "n" THEN "\n" ELSE str[2])>>
           \o JsonUnescape(Slice(str, 3, Len(str)))
    ELSE <<Head(str)>> \o JsonUnescape(Tail(str))

\* ... and parses it as the JSON array [filePath, line] of the arguments.
JsonParseArgs(json) ==
  LET Quotes == {q \in 3..Len(json) :
                   /\ json[q] = "\""
                   /\ json[q + 1] = ","
                   /\ \A m \in (q + 2)..(Len(json) - 1) : IsDigit(json[m])}
      q == SetMax(Quotes)
  IN [filePath |-> JsonUnescape(Slice(json, 3, q - 1)),
      line     |-> ParseInt(Slice(json, q + 2, Len(json) - 1))]

CommandArgs(target) == JsonParseArgs(DecodeURIComponent(target))

\* ----------------------------------------------------- provideDocumentLinks
\* document.positionAt(offset)
PositionAt(txt, offset) ==
  LET Breaks == {k \in 1..offset : txt[k] = "\n"} IN
  [line      |-> Cardinality(Breaks),
   character |-> offset - (IF Breaks = {} THEN 0 ELSE SetMax(Breaks))]

\* Variant of LinkOf: the range ends where the captured path ends
LinkOfPathOnly(doc, txt, match) ==
  LET workspaceFolder == GetWorkspaceFolder(doc) IN
  IF workspaceFolder.found
    THEN <<[start  |-> PositionAt(txt, match.index),
            end    |-> PositionAt(txt, match.index + Len(match.path)),
            target |-> LinkTarget(PathJoin(workspaceFolder.fsPath, match.path),
                                  ParseInt(match.digits))]>>
    ELSE <<>>

\* lines 119-134: the body of the while loop for one match
LinkOf(doc, txt, match) ==
  LET matchLength     == match.end - match.index
      filePath        == match.path
      lineNumber      == ParseInt(match.digits)
      startPos        == PositionAt(txt, match.index)
      endPos          == PositionAt(txt, match.index + matchLength)
      workspaceFolder == GetWorkspaceFolder(doc)
  IN IF workspaceFolder.found
       THEN <<[start  |-> startPos,
               end    |-> endPos,
               target |-> LinkTarget(PathJoin(workspaceFolder.fsPath, filePath),
                                     lineNumber)]>>
       ELSE <<>>

RECURSIVE ScanFrom(_, _, _, _)
\* lines 117-135: regex.exec in a loop; lastIndex moves to the end of each match
ScanFrom(doc, txt, lastIndex, acc) ==
  LET match == ExecRef(txt, lastIndex) IN
  IF ~match.found THEN acc
  ELSE ScanFrom(doc, txt, match.end, acc \o LinkOf(doc, txt, match))

\* lines 112-137
ProvideDocumentLinks ==
  /\ ~scanned
  /\ links' = ScanFrom(document, text, 0, <<>>)
  /\ scanned' = TRUE
  /\ UNCHANGED <<defVars, document, text, jumps, messages, selection>>

\* ---------------------------------------------------------- clicktogo.jump
\* A jump is [link, filePath, line, pc, opens, outcome, position, threw].
\* The user activates link k: the host runs the command with the decoded
\* arguments; lines 19-22 run up to the await of openTextDocument.
ActivateLink(k) ==
  /\ scanned
  /\ k \in 1..Len(links)
  /\ Len(jumps) < MaxJumps
  /\ LET args == CommandArgs(links[k].target) IN
     jumps' = Append(jumps,
                [link     |-> k,
                 filePath |-> args.filePath,
                 line     |-> args.line,
                 pc       |-> "awaitOpen",
                 opens    |-> 1,
                 outcome  |-> "pending",
                 position |-> [set |-> FALSE, line |-> 0, character |-> 0],
                 threw    |-> FALSE])
  /\ UNCHANGED <<defVars, document, text, links, scanned, messages, selection>>

\* Variant of JumpCatch: the error is shown and thrown again
JumpCatchRethrows(j, outcome) ==
  /\ messages' = Append(messages, jumps[j].filePath)
  /\ jumps' = [jumps EXCEPT ![j].pc = "done", ![j].outcome = outcome,
                            ![j].threw = TRUE]
  /\ UNCHANGED selection

\* lines 27-29: catch (error) { showErrorMessage(`Could not open file: ...`) }
JumpCatch(j, outcome) ==
  /\ messages' = Append(messages, jumps[j].filePath)
  /\ jumps' = [jumps EXCEPT ![j].pc = "done", ![j].outcome = outcome]
  /\ UNCHANGED selection

\* line 22: openTextDocument rejects
JumpOpenFails(j) ==
  /\ jumps[j].pc = "awaitOpen"
  /\ JumpCatch(j, "openFailed")
  /\ UNCHANGED <<defVars, document, text, links, scanned>>

\* lines 22-23: the document opens; showTextDocument is awaited
JumpOpens(j) ==
  /\ jumps[j].pc = "awaitOpen"
  /\ jumps' = [jumps EXCEPT ![j].pc = "awaitShow"]
  /\ UNCHANGED <<defVars, document, text, links, scanned, messages, selection>>

\* line 23: showTextDocument rejects
JumpShowFails(j) ==
  /\ jumps[j].pc = "awaitShow"
  /\ JumpCatch(j, "showFailed")
  /\ UNCHANGED <<defVars, document, text, links, scanned>>

\* lines 24-26: the editor is shown; the selection moves to the position
JumpShows(j) ==
  /\ jumps[j].pc = "awaitShow"
  /\ LET line == TargetLine(jumps[j].line) IN
     IF PositionThrows(line)
       THEN JumpCatch(j, "positionThrew")
       ELSE /\ selection' = [path |-> jumps[j].filePath, line |-> line, character |-> 0]
            /\ jumps' = [jumps EXCEPT
                 ![j].pc = "done",
                 ![j].outcome = "selected",
                 ![j].position = [set |-> TRUE, line |-> line, character |-> 0]]
            /\ UNCHANGED messages
  /\ UNCHANGED <<defVars, document, text, links, scanned>>

\* ------------------------------------------------------------ documents
\* /proj/main.py
PythonDocument == WorkspaceRoot \o <<"/", "m", "a", "i", "n", ".", "p", "y">>

\* /proj/n.txt
DocumentInside == WorkspaceRoot \o <<"/", "n", ".", "t", "x", "t">>

\* /tmp/n.txt
DocumentOutside == <<"/", "t", "m", "p", "/", "n", ".", "t", "x", "t">>

\* lines 7-9: the definition provider is registered for Python documents
IsPython(doc) == EndsWith(doc, <<".", "p", "y">>)

\* "see helpers/util.py:10 for details"
ExampleText ==
  <<"s", "e", "e", " ", "h", "e", "l", "p", "e", "r", "s", "/", "u", "t",
    "i", "l", ".", "p", "y", ":", "1", "0", " ", "f", "o", "r", " ",
    "d", "e", "t", "a", "i", "l", "s">>

\* Pieces document texts are built from
Chunks ==
  {<<"a", ".", "p", "y", ":", "1">>, <<"b", "/">>, <<"\\">>, <<" ">>,
   <<"0">>, <<".", "p", "y", ":">>, <<"\n">>}

Texts ==
  {Flatten(cs) : cs \in UNION {[1..n -> Chunks] : n \in 0..MaxChunks}}
    \cup {ExampleText}

\* ---------------------------------------------------------- specification
NoAnswer == [kind |-> "absent", locs |-> <<>>]

Init ==
  /\ \/ /\ document = PythonDocument
        /\ text = <<"x">>
        /\ upstream \in UpstreamAnswers
     \/ /\ document \in {DocumentInside, DocumentOutside}
        /\ text \in Texts
        /\ upstream = NoAnswer
  /\ isFetching = FALSE
  /\ calls = <<>>
  /\ links = <<>>
  /\ scanned = FALSE
  /\ jumps = <<>>
  /\ messages = <<>>
  /\ selection = [path |-> document, line |-> 0, character |-> 0]

Next ==
  \/ IsPython(document) /\ HostInvoke
  \/ \E c \in 1..Len(calls) : PipelineInvoke(c)
  \/ \E c \in 1..Len(calls) : UpstreamSettles(c)
  \/ \E c \in 1..Len(calls) : OpenSettles(c)
  \/ ProvideDocumentLinks
  \/ \E k \in 1..Len(links) : ActivateLink(k)
  \/ \E j \in 1..Len(jumps) : JumpOpenFails(j)
  \/ \E j \in 1..Len(jumps) : JumpOpens(j)
  \/ \E j \in 1..Len(jumps) : JumpShowFails(j)
  \/ \E j \in 1..Len(jumps) : JumpShows(j)

Spec == Init /\ [][Next]_vars

\* The event loop runs every continuation that is ready, and the host
\* settles every lookup and open it was asked for.
DefinitionStep ==
  \E c \in 1..Len(calls) :
    PipelineInvoke(c) \/ UpstreamSettles(c) \/ OpenSettles(c)

Fairness == WF_vars(DefinitionStep)

FairSpec == Spec /\ Fairness

\* ===================================================================== claims
InFlight == {c \in 1..Len(calls) : calls[c].pc # "done"}

Independent(c) == calls[c].parent = 0

RECURSIVE SequentialRedirects(_)
\* lines 58-71 run without interruption over a list of locations
SequentialRedirects(locs) ==
  IF locs = <<>> THEN <<>>
  ELSE LET loc  == Head(locs)
           real == IF IsStub(loc) THEN ResolveRealLocation(loc) ELSE NoLocation
       IN (IF real.found THEN <<real>> ELSE <<>>) \o SequentialRedirects(Tail(locs))

\* lines 42-75 for a request that is the only one: what it returns for an
\* upstream answer
RunAlone(answer) ==
  CASE answer.kind = "throws" -> Thrown
    [] answer.kind \in {"absent", "notArray"} -> Undefined
    [] OTHER -> Returned(SequentialRedirects(answer.locs))

\* C1: every request made by the host itself (not the nested call of a
\* forwarded lookup) ends with the result it would have had running alone,
\* also when it was invoked while another request was suspended.
C1_NoInterference ==
  \A c \in 1..Len(calls) :
    (Independent(c) /\ calls[c].pc = "done") => calls[c].ret = RunAlone(upstream)

\* Nested provider calls are answered with undefined and do not forward; at
\* most one call awaits the upstream pipeline
C2_NestedReturnsNothing ==
  /\ \A c \in 1..Len(calls) :
       ~Independent(c) =>
         /\ calls[c].pc = "done"
         /\ calls[c].ret = Undefined
         /\ ~calls[c].forwarded
  /\ Cardinality({c \in 1..Len(calls) : calls[c].pc = "awaitUpstream"}) <= 1

\* C2: a provider call made by the pipeline of a forwarded lookup returns
\* undefined without forwarding, at most one forwarded lookup is ever in
\* progress, and every call in flight completes.
C2_Reentrancy ==
  /\ []C2_NestedReturnsNothing
  /\ (InFlight # {}) ~> (InFlight = {})

\* A nested call answered with undefined, its outer call completed with a list
C2_Witness ==
  \E c, d \in 1..Len(calls) :
    /\ calls[d].parent = c
    /\ calls[d].ret = Undefined
    /\ calls[c].pc = "done"
    /\ calls[c].ret.kind = "list"
    /\ calls[c].ret.locs # <<>>

C3_FlagFalseWhenIdle == InFlight = {} => isFetching = FALSE

C3_RejectedKeepsFlag ==
  (Len(calls') > Len(calls) /\ ~calls'[Len(calls')].forwarded)
    => isFetching' = isFetching

\* C3: with no request in flight the flag is false, whichever way the calls
\* that passed the guard ended; a call rejected by the guard leaves the flag
\* as it was.
C3_FlagReset == []C3_FlagFalseWhenIdle /\ [][C3_RejectedKeepsFlag]_vars

\* A request ended by an exception of the upstream lookup, and a later
\* request passed the guard
C3_Witness ==
  \E c, d \in 1..Len(calls) :
    /\ c < d
    /\ Independent(c) /\ Independent(d)
    /\ calls[c].pc = "done" /\ calls[c].ret = Thrown
    /\ calls[d].forwarded

\* ------------------------------------------- the redirect-comment grammar
\* Value of a decimal numeral
RECURSIVE NumberOf(_)
NumberOf(ds) ==
  IF Len(ds) = 1 THEN DigitVal(ds[1])
  ELSE DigitVal(ds[1]) * 10 ^ (Len(ds) - 1) + NumberOf(Tail(ds))

\* Characters of a relative path: word characters, ".", "-" and "/"
PathCharacter(ch) == ch \in Letters \cup Digits \cup {"_", ".", "-", "/"}

\* The ways str contains "#", white space, <relative-path>.py, ":", <n>:
\* h the "#", s the start of the path, c the ":", e the last digit taken.
RedirectParses(str) ==
  LET n == Len(str)
      S(h) == {s \in (h + 1)..n : \A m \in (h + 1)..(s - 1) : IsSpace(str[m])}
      C(s) == {c \in (s + 4)..n :
                 /\ str[c] = ":"
                 /\ \A m \in s..(c - 1) : PathCharacter(str[m])
                 /\ Slice(str, c - 3, c - 1) = <<".", "p", "y">>}
      E(c) == {e \in (c + 1)..n : \A m \in (c + 1)..e : IsDigit(str[m])}
  IN UNION {UNION {UNION {{[h |-> h, s |-> s, c |-> c, e |-> e] : e \in E(c)}
                            : c \in C(s)}
                     : s \in S(h)}
              : h \in {h \in 1..n : str[h] = "#"}}

\* The comment a reader takes from the line: the first one, with its whole
\* line number
TheRedirect(str) ==
  LET P == RedirectParses(str)
      p == CHOOSE p \in P : \A q \in P : p.h < q.h \/ (p.h = q.h /\ p.e >= q.e)
  IN [relativePath |-> Slice(str, p.s, p.c - 1),
      n            |-> NumberOf(Slice(str, p.c + 1, p.e))]

\* The line at the reported position can be read
Readable(loc) ==
  FileAt(loc.path).opens /\ loc.line < Len(FileAt(loc.path).lines)

LineAt(loc) == FileAt(loc.path).lines[loc.line + 1]

\* The stub locations whose line matches the redirect-comment grammar
MatchingStubs ==
  {loc \in UpstreamLocations :
     /\ EndsWith(loc.path, <<".", "p", "y", "i">>)
     /\ Readable(loc)
     /\ RedirectParses(LineAt(loc)) # {}}

MatchingStub(loc) == loc \in MatchingStubs

InWorkspace(loc) == StartsWith(loc.path, WorkspaceRoot \o <<"/">>)

\* ... that lie in the workspace folder and name a line number >= 1, each
\* with the location its comment stands for
Redirects ==
  {<<loc, [threw     |-> FALSE,
           found     |-> TRUE,
           path      |-> PathJoin(WorkspaceRoot, TheRedirect(LineAt(loc)).relativePath),
           line      |-> TheRedirect(LineAt(loc)).n - 1,
           character |-> 0]>> :
     loc \in {l \in MatchingStubs :
                InWorkspace(l) /\ TheRedirect(LineAt(l)).n >= 1}}

Redirectable(loc) == \E p \in Redirects : p[1] = loc

RedirectOf(loc) == (CHOOSE p \in Redirects : p[1] = loc)[2]

Count(seq, x) == Cardinality({k \in 1..Len(seq) : seq[k] = x})

\* Calls that returned a list
Listed == {c \in 1..Len(calls) : calls[c].pc = "done" /\ calls[c].ret.kind = "list"}

\* /proj/m.pyi line 0, "# a/b.py:42", and /proj/a/b.py line 41
ExampleStub == [path |-> FileM.path, line |-> 0]

ExampleTarget ==
  [threw     |-> FALSE,
   found     |-> TRUE,
   path      |-> <<"/", "p", "r", "o", "j", "/", "a", "/", "b", ".", "p", "y">>,
   line      |-> 41,
   character |-> 0]

\* C4 as stated: every upstream stub location whose line matches the grammar
\* has its location (line n - 1, column 0) in the result.
C4_EveryMatchRedirected ==
  \A c \in Listed :
    \A k \in 1..Len(calls[c].results) :
      MatchingStub(calls[c].results[k]) =>
        \E m \in 1..Len(calls[c].ret.locs) :
          /\ calls[c].ret.locs[m].line = TheRedirect(LineAt(calls[c].results[k])).n - 1
          /\ calls[c].ret.locs[m].character = 0

\* C4 amended: every upstream stub location inside the workspace folder
\* whose line matches the grammar with a line number n >= 1 has exactly one
\* location in the result: workspace root joined with the captured path,
\* line n - 1, column 0 ("# a/b.py:42" under /proj gives /proj/a/b.py, 41).
C4_OneRedirectPerMatch ==
  \A c \in Listed :
    LET R == calls[c].results IN
    /\ \A k \in 1..Len(R) :
         Redirectable(R[k]) =>
           Count(calls[c].ret.locs, RedirectOf(R[k]))
             = Cardinality({m \in 1..Len(R) :
                              Redirectable(R[m]) /\ RedirectOf(R[m]) = RedirectOf(R[k])})
    /\ \A k \in 1..Len(R) :
         R[k] = ExampleStub => Count(calls[c].ret.locs, ExampleTarget) >= 1

\* The example stub location was redirected, next to another redirect
C4_Witness ==
  \E c \in Listed :
    /\ Len(calls[c].results) = 2
    /\ calls[c].results[1] = ExampleStub
    /\ calls[c].ret.locs[1] = ExampleTarget
    /\ Len(calls[c].ret.locs) = 2

\* C5: every location of the result is the redirect of an upstream stub
\* location whose line matched; locations that are no stubs or have no
\* matching comment add nothing, so the result is no longer than the number
\* of matching stub locations.
C5_OnlyRedirects ==
  \A c \in Listed :
    LET R == calls[c].results IN
    /\ \A m \in 1..Len(calls[c].ret.locs) :
         \E k \in 1..Len(R) :
           Redirectable(R[k]) /\ calls[c].ret.locs[m] = RedirectOf(R[k])
    /\ Len(calls[c].ret.locs) <= Cardinality({k \in 1..Len(R) : MatchingStub(R[k])})
    /\ Len(calls[c].ret.locs) <= Len(R)

\* A location that is no stub, though its line carries a redirect comment,
\* and a stub line without one were dropped next to nothing else
C5_Witness ==
  \E c \in Listed :
    /\ calls[c].results = <<[path |-> FileR.path, line |-> 0],
                            [path |-> FileM.path, line |-> 1]>>
    /\ calls[c].ret.locs = <<>>

\* Stub locations whose file cannot be opened or whose line is out of range
Unreadable(loc) == EndsWith(loc.path, <<".", "p", "y", "i">>) /\ ~Readable(loc)

CanBeRead(loc) == ~Unreadable(loc)

RECURSIVE RedirectsOf(_)
\* The redirects of a list of locations, in order
RedirectsOf(locs) ==
  IF locs = <<>> THEN <<>>
  ELSE (IF Redirectable(Head(locs)) THEN <<RedirectOf(Head(locs))>> ELSE <<>>)
         \o RedirectsOf(Tail(locs))

\* Calls that got an array from the upstream lookup and have finished
Answered ==
  {c \in 1..Len(calls) :
     calls[c].pc = "done" /\ calls[c].forwarded /\ upstream.kind = "array"}

\* C6: a stub that cannot be opened, or whose reported line is out of range,
\* does not abort the request: the call returns a list, the loop ran to the
\* end of the upstream list, and the list is the one the other locations
\* give without it.
C6_FailureSkipsOneLocation ==
  \A c \in Answered :
    /\ calls[c].ret.kind = "list"
    /\ calls[c].i = Len(upstream.locs) + 1
    /\ calls[c].ret.locs = RedirectsOf(SelectSeq(upstream.locs, CanBeRead))

\* An unopenable stub came first and the example stub after it was redirected
C6_Witness ==
  \E c \in Answered :
    /\ upstream.locs = <<[path |-> FileG.path, line |-> 0], ExampleStub>>
    /\ calls[c].ret.locs = <<ExampleTarget>>

\* ------------------------------------------------ the inline-reference grammar
\* The ":" of the references <relative-path>.py:<n> in str
Colons(str) ==
  {c \in 5..(Len(str) - 1) :
     /\ str[c] = ":"
     /\ Slice(str, c - 3, c - 1) = <<".", "p", "y">>
     /\ PathCharacter(str[c - 4])
     /\ IsDigit(str[c + 1])}

\* The reference around a ":" taken as long as it goes: [s, c, e] with s its
\* first character and e its last digit
ReferenceAt(str, c) ==
  [s |-> SetMin({s \in 1..(c - 4) : \A m \in s..(c - 1) : PathCharacter(str[m])}),
   c |-> c,
   e |-> SetMax({e \in (c + 1)..Len(str) : \A m \in (c + 1)..e : IsDigit(str[m])})]

References(str) == {ReferenceAt(str, c) : c \in Colons(str)}

NonOverlapping(str) ==
  \A p, q \in References(str) : p = q \/ p.e < q.s \/ q.e < p.s

\* The k-th reference in text order
Reference(str, k) ==
  CHOOSE r \in References(str) :
    Cardinality({q \in References(str) : q.s < r.s}) = k - 1

ReferencePath(str, r) == Slice(str, r.s, r.c - 1)

ReferenceLine(str, r) == NumberOf(Slice(str, r.c + 1, r.e))

HasWorkspace == StartsWith(document, WorkspaceRoot \o <<"/">>)

\* C7: in a document inside the workspace folder whose N references do not
\* overlap, the scan returns N links in text order, each over the range of
\* its reference and bound to jump(workspace root joined with the path, n);
\* in a document outside every workspace folder it returns no links.
C7_LinkPerReference ==
  scanned =>
    /\ ~HasWorkspace => links = <<>>
    /\ (HasWorkspace /\ NonOverlapping(text)) =>
         /\ Len(links) = Cardinality(References(text))
         /\ \A k \in 1..Len(links) :
              LET r == Reference(text, k) IN
              /\ links[k].start = PositionAt(text, r.s - 1)
              /\ links[k].end = PositionAt(text, r.e)
              /\ CommandArgs(links[k].target)
                   = [filePath |-> PathJoin(WorkspaceRoot, ReferencePath(text, r)),
                      line     |-> ReferenceLine(text, r)]

\* Two references, the second on a later line, each with its link
C7_Witness ==
  /\ scanned
  /\ HasWorkspace
  /\ NonOverlapping(text)
  /\ Len(links) = 2
  /\ links[2].start.line = 1

FailedToOpen(j) == jumps[j].pc = "done" /\ jumps[j].outcome = "openFailed"

Caught ==
  {j \in 1..Len(jumps) :
     jumps[j].outcome \in {"openFailed", "showFailed", "positionThrew"}}

C8_OneAttemptNoThrow ==
  /\ \A j \in 1..Len(jumps) :
       FailedToOpen(j) => jumps[j].opens = 1 /\ ~jumps[j].threw
  /\ \A j \in 1..Len(jumps) :
       FailedToOpen(j) =>
         Count(messages, jumps[j].filePath)
           = Cardinality({i \in Caught : jumps[i].filePath = jumps[j].filePath})

C8_FailureStep ==
  \A j \in 1..Len(jumps) :
    (jumps[j].pc = "awaitOpen" /\ jumps'[j].outcome = "openFailed") =>
      /\ messages' = Append(messages, jumps[j].filePath)
      /\ selection' = selection

\* C8: a jump whose open failed made one attempt to open, did not throw,
\* and showed one message naming its path without moving the selection.
C8_JumpFailure == []C8_OneAttemptNoThrow /\ [][C8_FailureStep]_vars

\* A jump to /proj/a.py failed to open and its path was shown
C8_Witness ==
  \E j \in 1..Len(jumps) :
    /\ FailedToOpen(j)
    /\ jumps[j].filePath = WorkspaceRoot \o <<"/", "a", ".", "p", "y">>
    /\ messages = <<jumps[j].filePath>>
    /\ selection.path = document

\* The line number written in the reference a jump's link was made for
WrittenLine(j) == ReferenceLine(text, Reference(text, jumps[j].link))

\* Jumps whose file opened and was shown in an editor
Shown ==
  {j \in 1..Len(jumps) : jumps[j].outcome \in {"selected", "positionThrew"}}

\* C9 as stated: once the file of an activated link for "p:n" opened, the
\* selection was set to (n - 1, 0).
C9_SelectionAlwaysSet ==
  NonOverlapping(text) =>
    \A j \in Shown :
      /\ jumps[j].position.set
      /\ jumps[j].position.line = WrittenLine(j) - 1

\* C9 amended: every redirect of the resolver is at (n - 1, 0) for its
\* captured n; the command of a link for "p:n" is run with n itself, and a
\* jump whose file opened and was shown sets the selection to (n - 1, 0)
\* when n >= 1 and sets no position at all when n = 0.
C9_DecrementedOnce ==
  /\ \A c \in Listed :
       LET Rs == RedirectsOf(calls[c].results) IN
       /\ Len(calls[c].ret.locs) = Len(Rs)
       /\ \A m \in 1..Len(Rs) :
            /\ calls[c].ret.locs[m].line = Rs[m].line
            /\ calls[c].ret.locs[m].character = 0
  /\ NonOverlapping(text) =>
       \A j \in 1..Len(jumps) :
         /\ jumps[j].line = WrittenLine(j)
         /\ jumps[j].outcome = "selected" =>
              /\ WrittenLine(j) >= 1
              /\ jumps[j].position
                   = [set |-> TRUE, line |-> WrittenLine(j) - 1, character |-> 0]
         /\ jumps[j].outcome = "positionThrew" =>
              WrittenLine(j) = 0 /\ ~jumps[j].position.set

\* A link for line 10 was activated and the selection is at line 9
C9_Witness ==
  \E j \in 1..Len(jumps) :
    /\ NonOverlapping(text)
    /\ jumps[j].outcome = "selected"
    /\ WrittenLine(j) = 10
    /\ selection.line = 9

\* ------------------------------------------- the grammar with a backslash
\* /proj/m.pyi line 3, "# a\b.py:3"
BackslashStub == [path |-> FileM.path, line |-> 3]

\* Starts of the references when "\" counts as a path character
StartsWithBackslash(str) ==
  {s \in 1..Len(str) :
     \E c \in Colons(str) :
       /\ s <= ReferenceAt(str, c).s
       /\ \A m \in s..(ReferenceAt(str, c).s - 1) :
            PathCharacter(str[m]) \/ str[m] = "\\"
       /\ (s = 1 \/ ~(PathCharacter(str[s - 1]) \/ str[s - 1] = "\\"))}

\* C10 as stated: the relative path may hold a backslash, and a reference
\* after one is matched from the start of the whole path; a redirect comment
\* with one is matched and gives a redirect.
C10_BackslashInPath ==
  /\ (scanned /\ HasWorkspace /\ NonOverlapping(text)) =>
       \A k \in 1..Len(links) :
         \E s \in StartsWithBackslash(text) :
           links[k].start = PositionAt(text, s - 1)
  /\ \A c \in Listed :
       (\E k \in 1..Len(calls[c].results) : calls[c].results[k] = BackslashStub)
         => calls[c].ret.locs # <<>>

CharsOf(seq) == {seq[k] : k \in 1..Len(seq)}

\* C10 amended: the class holds word characters, ".", "-" and "/" only.
\* No link is bound to a path with a backslash; a reference right after a
\* backslash is matched from the character after it; a redirect comment
\* whose path holds a backslash is not matched, so an answer of such stub
\* locations alone gives an empty result.
C10_NoBackslashInPath ==
  /\ (scanned /\ HasWorkspace /\ NonOverlapping(text)) =>
       /\ \A k \in 1..Len(links) :
            "\\" \notin CharsOf(CommandArgs(links[k].target).filePath)
       /\ \A r \in References(text) :
            (r.s > 1 /\ text[r.s - 1] = "\\") =>
              \E k \in 1..Len(links) : links[k].start = PositionAt(text, r.s - 1)
  /\ \A c \in Listed :
       (\A k \in 1..Len(calls[c].results) : calls[c].results[k] = BackslashStub)
         => calls[c].ret.locs = <<>>

\* "b/\a.py:1" was scanned: its one link starts after the backslash
C10_Witness ==
  /\ scanned
  /\ HasWorkspace
  /\ text = <<"b", "/", "\\", "a", ".", "p", "y", ":", "1">>
  /\ Len(links) = 1
  /\ links[1].start.character = 3

====
